---------------------------- MODULE Spec2Model ----------------------------
(***************************************************************************)
(* Consent-gated event admission and configuration reconciliation of the   *)
(* Sentry / Zaraz consent integration (src/src/index.ts).                  *)
(*                                                                         *)
(* The instance (class SentryZarazConsentIntegrationClass), the telemetry  *)
(* client it patches and the DOM registrations it makes are kept in one    *)
(* record, the "world"; every method of the class is an operator from a   *)
(* world to a world, and every action of the specification runs one whole  *)
(* handler.  JavaScript values are written as tokens: "undefined", "null", *)
(* "true", "false", and numbers as their literals: "0", "1", "100".        *)
(***************************************************************************)
EXTENDS Naturals, Sequences, FiniteSets

VARIABLES
    \* fields of the instance (src/src/index.ts 299-311)
    purposeMapping, isConsentReady, hasConsent, eventQueue,
    consentChangeListener, currentConsentState, warningTimeoutId,
    errorTimeoutId, originalSentryConfig, originalScopeData, currentSentryHub,
    \* the telemetry client: presence, live options, scope, capture calls made,
    \* and the scope the application gave to Sentry.init (initialScope)
    client, clientOptions, scope, captured, initialScope,
    \* the document and the timers: registrations made by the instance
    readyListener, changeListeners, pendingTimers,
    \* what processEvent was given and what it returned, the events it let
    \* through and the events it blocked while consent was denied
    nextId, lastReturn, allowed, blocked,
    \* a test spy on the configuration write, the scope update and the queue
    \* flush: whether it is installed, and the calls it has counted
    spy,
    \* the consent source (window.zaraz.consent)
    window,
    \* a second run of the same instance, and its consent source
    twin, twinWindow,
    \* the purpose resolver on its own: a mapping value, a source, the result
    rMapping, rWindow, rResult

instVars == <<purposeMapping, isConsentReady, hasConsent, eventQueue,
              consentChangeListener, currentConsentState, warningTimeoutId,
              errorTimeoutId, originalSentryConfig, originalScopeData,
              currentSentryHub>>
sentryVars == <<client, clientOptions, scope, captured, initialScope>>
domVars == <<readyListener, changeListeners, pendingTimers>>
histVars == <<nextId, lastReturn, allowed, blocked, spy>>
worldVars == <<instVars, sentryVars, domVars, histVars>>
twinVars == <<twin, twinWindow>>
resolverVars == <<rMapping, rWindow, rResult>>
vars == <<worldVars, window, twinVars, resolverVars>>

---------------------------------------------------------------------------
(* Bounds *)

\* processEvent is called at most MaxEvents times in a run
MaxEvents == 2
\* an installed spy stops the run after it has counted MaxSpyCalls calls
MaxSpyCalls == 4
\* an identifier array of a purpose mapping has at most MaxIds entries
MaxIds == 2

---------------------------------------------------------------------------
(* The consent source and the purpose resolver *)

Purposes == {"functional", "analytics", "marketing", "preferences"}

\* the Zaraz purpose identifiers the source knows
Ids == {"F", "A"}

\* what window.zaraz.consent.get(purposeId) returns: boolean | undefined
GetValues == {"true", "false", "undefined"}

\* a value of purposeMapping[purpose]: string[] | boolean | undefined, or
\* a malformed entry (a bare string, as in the example of lines 783-788)
MapBoolean(b) == [kind |-> "boolean", val |-> b, ids |-> <<>>]
MapUndefined == [kind |-> "undefined", val |-> FALSE, ids |-> <<>>]
MapArray(s) == [kind |-> "array", val |-> FALSE, ids |-> s]
MapString == [kind |-> "string", val |-> FALSE, ids |-> <<>>]

\* Array.some in place of Array.every
everyGrantedSome(ids, win) ==
    \E i \in 1..Len(ids) : win.get[ids[i]] = "true"

\* mapping.every(purposeId => window.zaraz.consent.get(purposeId) === true)
everyGranted(ids, win) ==
    \A i \in 1..Len(ids) : win.get[ids[i]] = "true"

\* the resolver that tests the source before it looks at the mapping
checkZarazConsentSourceFirst(mapping, win) ==
    IF ~win.defined \/ ~win.consent THEN FALSE
    ELSE IF mapping.kind = "boolean" THEN mapping.val
    ELSE IF mapping.kind = "array" THEN everyGranted(mapping.ids, win)
    ELSE FALSE

\* a resolver that takes an empty identifier array as not configured
checkZarazConsentEmptyDenied(mapping, win) ==
    IF mapping.kind = "boolean" THEN mapping.val
    ELSE IF mapping.kind = "undefined" THEN FALSE
    ELSE IF mapping.kind = "array" THEN
        IF ~win.defined \/ ~win.consent \/ mapping.ids = <<>> THEN FALSE
        ELSE everyGranted(mapping.ids, win)
    ELSE FALSE

checkZarazConsent(mapping, win) ==
    IF mapping.kind = "boolean" THEN mapping.val
    ELSE IF mapping.kind = "undefined" THEN FALSE
    ELSE IF mapping.kind = "array" THEN
        IF ~win.defined \/ ~win.consent THEN FALSE
        ELSE everyGranted(mapping.ids, win)
    ELSE FALSE

isZarazConsentReady(win) ==
    IF ~win.defined THEN FALSE
    ELSE (win.consent /\ win.APIReady) \/ win.consent

getZarazConsentState(pm, win) ==
    [p \in Purposes |-> checkZarazConsent(pm[p], win)]

\* getConsentStatus is imported from './zaraz' (line 236); it is the purpose
\* resolver of the design: one boolean per purpose, as getZarazConsentState
getConsentStatus(pm, win) == getZarazConsentState(pm, win)


---------------------------------------------------------------------------
(* Events, the telemetry client's options and its scope *)

\* an event as processEvent and processQueuedEvents read it: its identity,
\* whether event.exception.values[0] is set, whether event.message is set
EventShapes ==
    { [exception |-> TRUE, message |-> TRUE],
      [exception |-> FALSE, message |-> TRUE],
      [exception |-> FALSE, message |-> FALSE] }

MakeEvent(id, shape) ==
    [id |-> id, exception |-> shape.exception, message |-> shape.message]

Hints == {"hint"}

\* the null that processEvent returns for a blocked or a queued event
NullEvent == [id |-> 0, exception |-> FALSE, message |-> FALSE]

\* the fields the reconciler writes, and one field it never names
GatedFields ==
    {"enabled", "sampleRate", "beforeSend", "maxBreadcrumbs",
     "attachStacktrace", "tracesSampleRate", "profilesSampleRate",
     "beforeBreadcrumb", "beforeSendTransaction", "sendDefaultPii",
     "replaysSessionSampleRate", "replaysOnErrorSampleRate"}
OptionFields == GatedFields \cup {"environment"}
OriginalFields == GatedFields \ {"enabled"}

\* Sentry.init without any of the gated options
DefaultInitOptions ==
    [f \in OptionFields |-> IF f = "environment" THEN "production"
                            ELSE "undefined"]

\* Sentry.init with every gated option chosen by the application
CustomInitOptions ==
    [enabled |-> "undefined", sampleRate |-> "0.5", beforeSend |-> "userHook",
     maxBreadcrumbs |-> "50", attachStacktrace |-> "true",
     tracesSampleRate |-> "0.1", profilesSampleRate |-> "0.2",
     beforeBreadcrumb |-> "userHook", beforeSendTransaction |-> "userHook",
     sendDefaultPii |-> "true", replaysSessionSampleRate |-> "0.1",
     replaysOnErrorSampleRate |-> "1", environment |-> "production"]

\* what captureOriginalScopeData keeps of a scope: _user, _tags, _contexts
NoScopeData == [user |-> "null", tags |-> <<>>, contexts |-> <<>>]

\* the scope of the hub.  captureOriginalScopeData keeps scope._contexts
\* itself, not a copy of it: inPlace says whether the telemetry client's
\* setContext changes that object where it is (TRUE, as @sentry/core does)
\* or replaces it by a changed copy (FALSE)
EmptyScope ==
    [user |-> "null", tags |-> <<>>, contexts |-> <<>>, inPlace |-> TRUE]

PopulatedScope ==
    [user |-> "user1",
     tags |-> [k \in {"campaign"} |-> "spring"],
     contexts |-> [k \in {"marketing", "app"} |-> "ctx"],
     inPlace |-> TRUE]

CopyingScope == [PopulatedScope EXCEPT !.inPlace = FALSE]

\* the user, tags and contexts of a scope
ScopeData(s) == [user |-> s.user, tags |-> s.tags, contexts |-> s.contexts]

\* the host application's Sentry.init: is a client bound to the hub, with
\* which options, and what the scope holds
SentrySetups ==
    { [client |-> FALSE, options |-> DefaultInitOptions,
       scope |-> PopulatedScope, spy |-> FALSE],
      [client |-> TRUE, options |-> DefaultInitOptions, scope |-> EmptyScope,
       spy |-> FALSE],
      [client |-> TRUE, options |-> CustomInitOptions, scope |-> PopulatedScope,
       spy |-> FALSE] }

\* the purpose mappings the host application may configure
Mappings ==
    { [functional |-> MapArray(<<"F">>), analytics |-> MapArray(<<"A">>),
       marketing |-> MapBoolean(TRUE), preferences |-> MapBoolean(FALSE)],
      [functional |-> MapArray(<<"F">>), analytics |-> MapUndefined,
       marketing |-> MapArray(<<"A">>), preferences |-> MapArray(<<"F", "A">>)] }

\* a ?? b
Nullish(a, b) == IF a \in {"undefined", "null"} THEN b ELSE a

\* a || b on tokens
OrElse(a, b) == IF a \in {"undefined", "null"} THEN b ELSE a

\* consentState.purpose read as a condition: undefined is falsy
Granted(consentState, p) == p \in DOMAIN consentState /\ consentState[p]

\* Object.assign(target, patch)
ObjectAssign(target, patch) ==
    [f \in DOMAIN target \cup DOMAIN patch |->
        IF f \in DOMAIN patch THEN patch[f] ELSE target[f]]

\* the instance before setupOnce: the field initialisers of lines 302-311
\* in a page whose Sentry.init is `setup`, configured with mapping pm
NewWorld(pm, setup) ==
    [purposeMapping |-> pm,
     isConsentReady |-> FALSE,
     hasConsent |-> FALSE,
     eventQueue |-> <<>>,
     consentChangeListener |-> FALSE,
     currentConsentState |-> <<>>,
     warningTimeoutId |-> FALSE,
     errorTimeoutId |-> FALSE,
     originalSentryConfig |-> [f \in OriginalFields |-> "undefined"],
     originalScopeData |-> NoScopeData,
     currentSentryHub |-> FALSE,
     client |-> setup.client,
     clientOptions |-> setup.options,
     scope |-> setup.scope,
     captured |-> <<>>,
     initialScope |-> ScopeData(setup.scope),
     readyListener |-> FALSE,
     changeListeners |-> 0,
     pendingTimers |-> {},
     nextId |-> 1,
     lastReturn |-> [event |-> NullEvent, result |-> NullEvent],
     allowed |-> <<>>,
     blocked |-> {},
     spy |-> [installed |-> setup.spy, calls |-> 0]]

\* window.zaraz before the consent manager has loaded
NewWindow ==
    [defined |-> TRUE, consent |-> FALSE, APIReady |-> FALSE,
     get |-> [i \in Ids |-> "undefined"]]

---------------------------------------------------------------------------
(* The methods of SentryZarazConsentIntegrationClass, world to world *)

\* an installed spy counts the call it sees
spied(w) ==
    IF w.spy.installed THEN [w EXCEPT !.spy.calls = @ + 1] ELSE w

\* @sentry/react exports captureEvent, so the test of line 563 succeeds
SentryHasCaptureEvent == TRUE

\* this.currentSentryHub?.getClient()
getClient(w) == w.currentSentryHub /\ w.client

captureOriginalSentryConfig(w) ==
    IF getClient(w)
    THEN [w EXCEPT !.originalSentryConfig =
             [f \in OriginalFields |-> w.clientOptions[f]]]
    ELSE [w EXCEPT !.originalSentryConfig =
             [f \in OriginalFields |->
                 CASE f = "sendDefaultPii" -> "false"
                   [] f = "maxBreadcrumbs" -> "100"
                   [] f = "attachStacktrace" -> "false"
                   [] f = "sampleRate" -> "1"
                   [] f \in {"tracesSampleRate", "replaysSessionSampleRate",
                             "replaysOnErrorSampleRate",
                             "profilesSampleRate"} -> "0"
                   [] OTHER -> "undefined"]]

captureOriginalScopeData(w) ==
    IF w.currentSentryHub
    THEN [w EXCEPT !.originalScopeData =
             [user |-> OrElse(w.scope.user, "null"),
              tags |-> w.scope.tags,
              contexts |-> w.scope.contexts]]
    ELSE w

\* the functional part with a grant that wraps the hook it finds installed
\* instead of putting the captured hook back
functionalConfigWrapsLiveHook(w, consentState) ==
    IF ~Granted(consentState, "functional")
    THEN [enabled |-> "false", sampleRate |-> "0", beforeSend |-> "blockAll"]
    ELSE [enabled |-> "true",
          sampleRate |-> Nullish(w.originalSentryConfig.sampleRate, "1"),
          beforeSend |->
              IF w.clientOptions.beforeSend = "wrapped" THEN "wrappedTwice"
              ELSE "wrapped"]

\* the functional part with a denial that keeps the original send hook
functionalConfigKeepsHook(w, consentState) ==
    IF ~Granted(consentState, "functional")
    THEN [enabled |-> "false", sampleRate |-> "0",
          beforeSend |-> w.originalSentryConfig.beforeSend]
    ELSE [enabled |-> "true",
          sampleRate |-> Nullish(w.originalSentryConfig.sampleRate, "1"),
          beforeSend |-> w.originalSentryConfig.beforeSend]

\* the part of the patch that functional consent decides (lines 662-671)
functionalConfig(w, consentState) ==
    IF ~Granted(consentState, "functional")
    THEN [enabled |-> "false", sampleRate |-> "0", beforeSend |-> "blockAll"]
    ELSE [enabled |-> "true",
          sampleRate |-> Nullish(w.originalSentryConfig.sampleRate, "1"),
          beforeSend |-> w.originalSentryConfig.beforeSend]

\* the analytics part with a denial that forgets the profile sampling rate
analyticsConfigKeepsProfiles(w, consentState) ==
    IF ~Granted(consentState, "analytics")
    THEN [maxBreadcrumbs |-> "0", attachStacktrace |-> "false",
          tracesSampleRate |-> "0",
          profilesSampleRate |->
              Nullish(w.originalSentryConfig.profilesSampleRate, "0"),
          beforeBreadcrumb |-> "blockAll",
          beforeSendTransaction |-> "blockAll"]
    ELSE [maxBreadcrumbs |->
              Nullish(w.originalSentryConfig.maxBreadcrumbs, "100"),
          attachStacktrace |->
              Nullish(w.originalSentryConfig.attachStacktrace, "false"),
          tracesSampleRate |->
              Nullish(w.originalSentryConfig.tracesSampleRate, "0"),
          profilesSampleRate |->
              Nullish(w.originalSentryConfig.profilesSampleRate, "0"),
          beforeBreadcrumb |-> w.originalSentryConfig.beforeBreadcrumb,
          beforeSendTransaction |->
              w.originalSentryConfig.beforeSendTransaction]

\* the part that analytics consent decides (lines 673-692)
analyticsConfig(w, consentState) ==
    IF ~Granted(consentState, "analytics")
    THEN [maxBreadcrumbs |-> "0", attachStacktrace |-> "false",
          tracesSampleRate |-> "0", profilesSampleRate |-> "0",
          beforeBreadcrumb |-> "blockAll",
          beforeSendTransaction |-> "blockAll"]
    ELSE [maxBreadcrumbs |->
              Nullish(w.originalSentryConfig.maxBreadcrumbs, "100"),
          attachStacktrace |->
              Nullish(w.originalSentryConfig.attachStacktrace, "false"),
          tracesSampleRate |->
              Nullish(w.originalSentryConfig.tracesSampleRate, "0"),
          profilesSampleRate |->
              Nullish(w.originalSentryConfig.profilesSampleRate, "0"),
          beforeBreadcrumb |-> w.originalSentryConfig.beforeBreadcrumb,
          beforeSendTransaction |->
              w.originalSentryConfig.beforeSendTransaction]

\* the preferences part with a denial that leaves the PII flag as captured
preferencesConfigKeepsPii(w, consentState) ==
    IF ~Granted(consentState, "preferences")
    THEN [sendDefaultPii |->
              Nullish(w.originalSentryConfig.sendDefaultPii, "false"),
          replaysSessionSampleRate |-> "0",
          replaysOnErrorSampleRate |-> "0"]
    ELSE [sendDefaultPii |->
              Nullish(w.originalSentryConfig.sendDefaultPii, "false"),
          replaysSessionSampleRate |->
              Nullish(w.originalSentryConfig.replaysSessionSampleRate, "0"),
          replaysOnErrorSampleRate |->
              Nullish(w.originalSentryConfig.replaysOnErrorSampleRate, "0")]

\* the part that preferences consent decides (lines 694-705)
preferencesConfig(w, consentState) ==
    IF ~Granted(consentState, "preferences")
    THEN [sendDefaultPii |-> "false", replaysSessionSampleRate |-> "0",
          replaysOnErrorSampleRate |-> "0"]
    ELSE [sendDefaultPii |->
              Nullish(w.originalSentryConfig.sendDefaultPii, "false"),
          replaysSessionSampleRate |->
              Nullish(w.originalSentryConfig.replaysSessionSampleRate, "0"),
          replaysOnErrorSampleRate |->
              Nullish(w.originalSentryConfig.replaysOnErrorSampleRate, "0")]

\* a patch whose PII flag also needs marketing consent
buildConsentBasedConfigMarketingPii(w, consentState) ==
    ObjectAssign(
        ObjectAssign(functionalConfig(w, consentState),
            ObjectAssign(analyticsConfig(w, consentState),
                         preferencesConfig(w, consentState))),
        IF Granted(consentState, "marketing") THEN <<>>
        ELSE [sendDefaultPii |-> "false"])

\* a patch that restricts on denial and writes nothing for the analytics
\* fields on a grant
buildConsentBasedConfigNoRestore(w, consentState) ==
    ObjectAssign(functionalConfig(w, consentState),
        ObjectAssign(IF Granted(consentState, "analytics") THEN <<>>
                     ELSE analyticsConfig(w, consentState),
                     preferencesConfig(w, consentState)))

buildConsentBasedConfig(w, consentState) ==
    ObjectAssign(functionalConfig(w, consentState),
        ObjectAssign(analyticsConfig(w, consentState),
                     preferencesConfig(w, consentState)))

\* scope.setUser, scope.setTag, scope.setContext as updateSentryScope uses them
scopeSetUser(s, user) == [s EXCEPT !.user = user]

scopeSetTag(s, key, value) ==
    [s EXCEPT !.tags = ObjectAssign(@, [k \in {key} |-> value])]

scopeSetContext(s, key, context) ==
    IF context = "null"
    THEN [s EXCEPT !.contexts = [k \in DOMAIN @ \ {key} |-> @[k]]]
    ELSE [s EXCEPT !.contexts = ObjectAssign(@, [k \in {key} |-> context])]

\* the contexts originalScopeData holds after the scope's contexts became c:
\* the same object when setContext works in place
sharedContexts(w, c) ==
    IF w.scope.inPlace THEN c ELSE w.originalScopeData.contexts

\* updateSentryScope that blanks the captured tags with an empty string
updateSentryScopeBlankTags(w, hasMarketingConsent) ==
    IF ~w.currentSentryHub THEN w
    ELSE IF ~hasMarketingConsent
    THEN LET s1 == scopeSetUser(w.scope, "null")
             s2 == [s1 EXCEPT !.tags =
                       [k \in DOMAIN @ \cup DOMAIN w.originalScopeData.tags |->
                           IF k \in DOMAIN w.originalScopeData.tags
                           THEN "" ELSE @[k]]]
             s3 == scopeSetContext(s2, "marketing", "null")
         IN  spied([w EXCEPT !.scope = s3,
                             !.originalScopeData.contexts =
                                 sharedContexts(w, s3.contexts)])
    ELSE LET o == w.originalScopeData
             s1 == IF o.user # "null" THEN scopeSetUser(w.scope, o.user)
                   ELSE w.scope
             s2 == [s1 EXCEPT !.tags = ObjectAssign(@, o.tags)]
             s3 == [s2 EXCEPT !.contexts = ObjectAssign(@, o.contexts)]
         IN  spied([w EXCEPT !.scope = s3,
                             !.originalScopeData.contexts =
                                 sharedContexts(w, s3.contexts)])

updateSentryScope(w, hasMarketingConsent) ==
    IF ~w.currentSentryHub THEN w
    ELSE IF ~hasMarketingConsent
    THEN LET s1 == scopeSetUser(w.scope, "null")
             s2 == [s1 EXCEPT !.tags =
                       [k \in DOMAIN @ \cup DOMAIN w.originalScopeData.tags |->
                           IF k \in DOMAIN w.originalScopeData.tags
                           THEN "undefined" ELSE @[k]]]
             s3 == scopeSetContext(s2, "marketing", "null")
         IN  spied([w EXCEPT !.scope = s3,
                             !.originalScopeData.contexts =
                                 sharedContexts(w, s3.contexts)])
    ELSE LET o == w.originalScopeData
             s1 == IF o.user # "null" THEN scopeSetUser(w.scope, o.user)
                   ELSE w.scope
             s2 == [s1 EXCEPT !.tags = ObjectAssign(@, o.tags)]
             s3 == [s2 EXCEPT !.contexts = ObjectAssign(@, o.contexts)]
         IN  spied([w EXCEPT !.scope = s3,
                             !.originalScopeData.contexts =
                                 sharedContexts(w, s3.contexts)])

\* applySentryConfiguration without the test for a client of lines 637-641
applySentryConfigurationWithoutClient(w, consentState) ==
    LET newConfig == buildConsentBasedConfig(w, consentState)
        w1 == spied([w EXCEPT !.clientOptions = ObjectAssign(@, newConfig)])
    IN  IF "marketing" \in DOMAIN consentState
        THEN updateSentryScope(w1, consentState.marketing)
        ELSE w1

applySentryConfiguration(w, consentState) ==
    IF ~getClient(w) THEN w
    ELSE LET newConfig == buildConsentBasedConfig(w, consentState)
             w1 == spied([w EXCEPT !.clientOptions =
                                       ObjectAssign(@, newConfig)])
         IN  IF "marketing" \in DOMAIN consentState
             THEN updateSentryScope(w1, consentState.marketing)
             ELSE w1

\* a placeholder in the source: it only logs
updateIntegrationConfigs(w, consentState) == w

clearEventQueue(w) == [w EXCEPT !.eventQueue = <<>>]

\* clearWarningAndErrorTimeouts that clears the warning timer only
clearWarningAndErrorTimeoutsWarningOnly(w) ==
    IF w.warningTimeoutId
    THEN [w EXCEPT !.pendingTimers = @ \ {"warning"},
                   !.warningTimeoutId = FALSE]
    ELSE w

clearWarningAndErrorTimeouts(w) ==
    LET w1 == IF w.warningTimeoutId
              THEN [w EXCEPT !.pendingTimers = @ \ {"warning"},
                             !.warningTimeoutId = FALSE]
              ELSE w
    IN  IF w1.errorTimeoutId
        THEN [w1 EXCEPT !.pendingTimers = @ \ {"error"},
                        !.errorTimeoutId = FALSE]
        ELSE w1

\* the capture call processQueuedEvents makes for one queued entry, or
\* "none"; `throws` says whether that call throws
recapture(entry, throws) ==
    IF entry.event.exception
    THEN [api |-> "captureException", id |-> entry.event.id, ok |-> ~throws]
    ELSE IF entry.event.message
    THEN [api |-> "captureMessage", id |-> entry.event.id, ok |-> ~throws]
    ELSE IF SentryHasCaptureEvent
    THEN [api |-> "captureEvent", id |-> entry.event.id, ok |-> ~throws]
    ELSE [api |-> "none", id |-> entry.event.id, ok |-> TRUE]

\* the for loop of lines 539-573 from entry i on; `throwing` is the set of
\* positions whose capture call throws
\* the branch processEvent takes for an event given to it now (337-369)
admission(w) ==
    IF w.isConsentReady /\ w.hasConsent THEN "allow"
    ELSE IF w.isConsentReady /\ ~w.hasConsent THEN "block"
    ELSE "queue"

\* what a capture call made now meets: the live queue, the gate's answer to
\* the event the call creates, and the options the client reads before it
\* sends
seen(w) ==
    [queueLen |-> Len(w.eventQueue),
     admission |-> admission(w),
     enabled |-> w.clientOptions.enabled,
     sampleRate |-> w.clientOptions.sampleRate,
     beforeSend |-> w.clientOptions.beforeSend]

\* a capture call that does not throw runs the client's event processors
\* before it returns, processEvent of this instance among them: an event
\* the gate defers is pushed onto the live queue
reenter(w, entry, call) ==
    IF getClient(w) /\ call.ok /\ admission(w) = "queue"
    THEN [w EXCEPT !.eventQueue = Append(@, entry)]
    ELSE w

RECURSIVE resend(_, _, _, _)
resend(w, queuedEvents, throwing, i) ==
    IF i > Len(queuedEvents) THEN w
    ELSE LET call == recapture(queuedEvents[i], i \in throwing)
             made == [api |-> call.api, id |-> call.id, ok |-> call.ok,
                      seen |-> seen(w)]
             w1 == IF w.hasConsent /\ call.api # "none"
                   THEN reenter([w EXCEPT !.captured = Append(@, made)],
                                queuedEvents[i], call)
                   ELSE w
         IN  resend(w1, queuedEvents, throwing, i + 1)

\* processQueuedEvents that iterates the live queue without clearing it
processQueuedEventsKeepQueue(w, throwing) ==
    resend(spied(w), w.eventQueue, throwing, 1)

\* processQueuedEvents that keeps the batch for a retry when a capture
\* call threw
processQueuedEventsRetriesBatch(w, throwing) ==
    LET queuedEvents == w.eventQueue
        w1 == spied([w EXCEPT !.eventQueue = <<>>])
        w2 == resend(w1, queuedEvents, throwing, 1)
    IN  IF w.hasConsent /\ throwing # {}
        THEN [w2 EXCEPT !.eventQueue = queuedEvents]
        ELSE w2

\* processQueuedEvents without the try / catch of lines 543-569: the first
\* capture call that throws ends the loop
processQueuedEventsAbortsOnThrow(w, throwing) ==
    LET queuedEvents == w.eventQueue
        w1 == spied([w EXCEPT !.eventQueue = <<>>])
        thrown == throwing \cap (1..Len(queuedEvents))
        last == IF thrown = {} \/ ~w.hasConsent THEN Len(queuedEvents)
                ELSE CHOOSE i \in thrown : \A j \in thrown : i <= j
    IN  resend(w1, SubSeq(queuedEvents, 1, last), throwing, 1)

\* processQueuedEvents that iterates the live queue and clears it after
\* the loop
processQueuedEventsClearsAfter(w, throwing) ==
    clearEventQueue(resend(spied(w), w.eventQueue, throwing, 1))

processQueuedEvents(w, throwing) ==
    LET queuedEvents == w.eventQueue
        w1 == spied([w EXCEPT !.eventQueue = <<>>])
    IN  resend(w1, queuedEvents, throwing, 1)

listenForConsentChanges(w) ==
    [w EXCEPT !.consentChangeListener = TRUE, !.changeListeners = @ + 1]

\* checkConsent that opens the gate only if analytics is granted as well
checkConsentGatesOnAnalytics(w, win, throwing) ==
    LET consentState == getConsentStatus(w.purposeMapping, win)
        w1 == [w EXCEPT !.currentConsentState = consentState,
                        !.isConsentReady = TRUE,
                        !.hasConsent = consentState.functional
                                         /\ consentState.analytics]
        w2 == updateIntegrationConfigs(
                  applySentryConfiguration(w1, consentState),
                  consentState)
        w3 == IF w2.hasConsent THEN processQueuedEvents(w2, throwing)
              ELSE clearEventQueue(w2)
    IN  clearWarningAndErrorTimeouts(listenForConsentChanges(w3))

\* checkConsent that flushes the queue before it reconciles the client
checkConsentFlushesFirst(w, win, throwing) ==
    LET consentState == getConsentStatus(w.purposeMapping, win)
        w1 == [w EXCEPT !.currentConsentState = consentState,
                        !.isConsentReady = TRUE,
                        !.hasConsent = consentState.functional]
        w2 == IF w1.hasConsent THEN processQueuedEvents(w1, throwing)
              ELSE clearEventQueue(w1)
        w3 == updateIntegrationConfigs(
                  applySentryConfiguration(w2, consentState),
                  consentState)
    IN  clearWarningAndErrorTimeouts(listenForConsentChanges(w3))

checkConsent(w, win, throwing) ==
    LET consentState == getConsentStatus(w.purposeMapping, win)
        w1 == [w EXCEPT !.currentConsentState = consentState,
                        !.isConsentReady = TRUE,
                        !.hasConsent = consentState.functional]
        w2 == updateIntegrationConfigs(
                  applySentryConfiguration(w1, consentState),
                  consentState)
        w3 == IF w2.hasConsent THEN processQueuedEvents(w2, throwing)
              ELSE clearEventQueue(w2)
    IN  clearWarningAndErrorTimeouts(listenForConsentChanges(w3))

\* a change listener that reconciles on every notification
onConsentChoicesUpdatedAlways(w, win, throwing) ==
    LET newConsentState == getConsentStatus(w.purposeMapping, win)
        currentConsent == newConsentState.functional
        w1 == [w EXCEPT !.hasConsent = currentConsent,
                        !.currentConsentState = newConsentState]
        w2 == updateIntegrationConfigs(
                  applySentryConfiguration(w1, newConsentState),
                  newConsentState)
    IN  IF currentConsent THEN processQueuedEvents(w2, throwing)
        ELSE w2

\* a change listener that reacts to a change of functional consent only
onConsentChoicesUpdatedFunctionalOnly(w, win, throwing) ==
    LET newConsentState == getConsentStatus(w.purposeMapping, win)
        currentConsent == newConsentState.functional
    IN  IF currentConsent # w.hasConsent
        THEN LET w1 == [w EXCEPT !.hasConsent = currentConsent,
                                 !.currentConsentState = newConsentState]
                 w2 == updateIntegrationConfigs(
                           applySentryConfiguration(w1, newConsentState),
                           newConsentState)
             IN  IF currentConsent THEN processQueuedEvents(w2, throwing)
                 ELSE w2
        ELSE w

\* a change listener that updates the flag and forgets the snapshot
onConsentChoicesUpdatedKeepsSnapshot(w, win, throwing) ==
    LET newConsentState == getConsentStatus(w.purposeMapping, win)
        currentConsent == newConsentState.functional
    IN  IF currentConsent # w.hasConsent
           \/ newConsentState # w.currentConsentState
        THEN LET w1 == [w EXCEPT !.hasConsent = currentConsent]
                 w2 == updateIntegrationConfigs(
                           applySentryConfiguration(w1, newConsentState),
                           newConsentState)
             IN  IF currentConsent THEN processQueuedEvents(w2, throwing)
                 ELSE w2
        ELSE w

\* the closure this.consentChangeListener (lines 472-505)
onConsentChoicesUpdated(w, win, throwing) ==
    LET newConsentState == getConsentStatus(w.purposeMapping, win)
        currentConsent == newConsentState.functional
    IN  IF currentConsent # w.hasConsent
           \/ newConsentState # w.currentConsentState
        THEN LET w1 == [w EXCEPT !.hasConsent = currentConsent,
                                 !.currentConsentState = newConsentState]
                 w2 == updateIntegrationConfigs(
                           applySentryConfiguration(w1, newConsentState),
                           newConsentState)
             IN  IF currentConsent THEN processQueuedEvents(w2, throwing)
                 ELSE w2
        ELSE w

\* handleZarazLoaded that stays registered after it has resolved
handleZarazLoadedStaysRegistered(w, win, throwing) ==
    IF win.consent /\ win.APIReady
    THEN clearWarningAndErrorTimeouts(checkConsent(w, win, throwing))
    ELSE w

\* the closure handleZarazLoaded (lines 385-400)
handleZarazLoaded(w, win, throwing) ==
    IF win.consent /\ win.APIReady
    THEN clearWarningAndErrorTimeouts(
             [checkConsent(w, win, throwing) EXCEPT !.readyListener = FALSE])
    ELSE w

\* a warning callback that gives up waiting, as the fallback does
warningTimeoutDecides(w) ==
    clearEventQueue(
        [w EXCEPT !.pendingTimers = @ \ {"warning"},
                  !.isConsentReady = TRUE,
                  !.hasConsent = FALSE])

\* the callback of the 20 second timer (lines 405-413): it writes to the
\* console and to the event log, and the timer is spent
warningTimeout(w) == [w EXCEPT !.pendingTimers = @ \ {"warning"}]

\* the fallback without its clearEventQueue call
errorTimeoutKeepQueue(w) ==
    [w EXCEPT !.pendingTimers = @ \ {"error"},
              !.isConsentReady = TRUE,
              !.hasConsent = FALSE]

\* the fallback that proceeds with consent instead of without
errorTimeoutGrants(w) ==
    clearEventQueue(
        [w EXCEPT !.pendingTimers = @ \ {"error"},
                  !.isConsentReady = TRUE,
                  !.hasConsent = TRUE])

\* the callback of the 45 second timer (lines 416-428)
errorTimeout(w) ==
    clearEventQueue(
        [w EXCEPT !.pendingTimers = @ \ {"error"},
                  !.isConsentReady = TRUE,
                  !.hasConsent = FALSE])

\* initializeConsentMonitoring that arms the warning but no fallback
initializeConsentMonitoringNoFallback(w, win, throwing) ==
    IF win.consent /\ win.APIReady
    THEN checkConsent(w, win, throwing)
    ELSE [w EXCEPT !.readyListener = TRUE,
                   !.warningTimeoutId = TRUE,
                   !.pendingTimers = {"warning"}]

\* initializeConsentMonitoring that subscribes the change listener while
\* it is still waiting for the source
initializeConsentMonitoringListensEarly(w, win, throwing) ==
    IF win.consent /\ win.APIReady
    THEN checkConsent(w, win, throwing)
    ELSE listenForConsentChanges(
             [w EXCEPT !.readyListener = TRUE,
                       !.warningTimeoutId = TRUE,
                       !.errorTimeoutId = TRUE,
                       !.pendingTimers = {"warning", "error"}])

initializeConsentMonitoring(w, win, throwing) ==
    IF win.consent /\ win.APIReady
    THEN checkConsent(w, win, throwing)
    ELSE [w EXCEPT !.readyListener = TRUE,
                   !.warningTimeoutId = TRUE,
                   !.errorTimeoutId = TRUE,
                   !.pendingTimers = {"warning", "error"}]

\* setupOnce that captures the originals after consent monitoring started
setupOnceCapturesLast(w, win, throwing) ==
    captureOriginalScopeData(
        captureOriginalSentryConfig(
            initializeConsentMonitoring([w EXCEPT !.currentSentryHub = TRUE],
                                        win, throwing)))

setupOnce(w, win, throwing) ==
    initializeConsentMonitoring(
        captureOriginalScopeData(
            captureOriginalSentryConfig([w EXCEPT !.currentSentryHub = TRUE])),
        win, throwing)

\* processEvent that also queues while consent is denied
processEventQueuesWhenDenied(w, event, hint) ==
    LET w0 == [w EXCEPT !.nextId = @ + 1]
    IN  IF w.isConsentReady /\ w.hasConsent
        THEN [w0 EXCEPT !.lastReturn = [event |-> event, result |-> event],
                        !.allowed = Append(@, event.id)]
        ELSE [w0 EXCEPT !.lastReturn = [event |-> event, result |-> NullEvent],
                        !.eventQueue =
                            Append(@, [event |-> event, hint |-> hint])]

\* processEvent that puts a deferred event at the head of the queue
processEventUnshift(w, event, hint) ==
    LET w0 == [w EXCEPT !.nextId = @ + 1]
    IN  IF w.isConsentReady /\ w.hasConsent
        THEN [w0 EXCEPT !.lastReturn = [event |-> event, result |-> event],
                        !.allowed = Append(@, event.id)]
        ELSE IF w.isConsentReady /\ ~w.hasConsent
        THEN [w0 EXCEPT !.lastReturn = [event |-> event, result |-> NullEvent],
                        !.blocked = @ \cup {event.id}]
        ELSE [w0 EXCEPT !.lastReturn = [event |-> event, result |-> NullEvent],
                        !.eventQueue =
                            <<[event |-> event, hint |-> hint]>> \o @]

\* processEvent that keeps an event blocked under denied consent for a
\* later grant
processEventKeepsDenied(w, event, hint) ==
    LET w0 == [w EXCEPT !.nextId = @ + 1]
    IN  IF w.isConsentReady /\ w.hasConsent
        THEN [w0 EXCEPT !.lastReturn = [event |-> event, result |-> event],
                        !.allowed = Append(@, event.id)]
        ELSE IF w.isConsentReady /\ ~w.hasConsent
        THEN [w0 EXCEPT !.lastReturn = [event |-> event, result |-> NullEvent],
                        !.blocked = @ \cup {event.id},
                        !.eventQueue =
                            Append(@, [event |-> event, hint |-> hint])]
        ELSE [w0 EXCEPT !.lastReturn = [event |-> event, result |-> NullEvent],
                        !.eventQueue =
                            Append(@, [event |-> event, hint |-> hint])]

processEvent(w, event, hint) ==
    LET w0 == [w EXCEPT !.nextId = @ + 1]
    IN  IF w.isConsentReady /\ w.hasConsent
        THEN [w0 EXCEPT !.lastReturn = [event |-> event, result |-> event],
                        !.allowed = Append(@, event.id)]
        ELSE IF w.isConsentReady /\ ~w.hasConsent
        THEN [w0 EXCEPT !.lastReturn = [event |-> event, result |-> NullEvent],
                        !.blocked = @ \cup {event.id}]
        ELSE [w0 EXCEPT !.lastReturn = [event |-> event, result |-> NullEvent],
                        !.eventQueue =
                            Append(@, [event |-> event, hint |-> hint])]

\* cleanup that also puts the gate back to its initial state
cleanupResetsGate(w) ==
    LET w1 == clearWarningAndErrorTimeouts(w)
        w2 == IF w1.consentChangeListener
              THEN [w1 EXCEPT !.changeListeners = @ - 1,
                              !.consentChangeListener = FALSE]
              ELSE w1
    IN  clearEventQueue([w2 EXCEPT !.isConsentReady = FALSE,
                                   !.hasConsent = FALSE])

cleanup(w) ==
    LET w1 == clearWarningAndErrorTimeouts(w)
        w2 == IF w1.consentChangeListener
              THEN [w1 EXCEPT !.changeListeners = @ - 1,
                              !.consentChangeListener = FALSE]
              ELSE w1
    IN  clearEventQueue(w2)

---------------------------------------------------------------------------
(* The state machine: one action per handler *)

World ==
    [purposeMapping |-> purposeMapping,
     isConsentReady |-> isConsentReady,
     hasConsent |-> hasConsent,
     eventQueue |-> eventQueue,
     consentChangeListener |-> consentChangeListener,
     currentConsentState |-> currentConsentState,
     warningTimeoutId |-> warningTimeoutId,
     errorTimeoutId |-> errorTimeoutId,
     originalSentryConfig |-> originalSentryConfig,
     originalScopeData |-> originalScopeData,
     currentSentryHub |-> currentSentryHub,
     client |-> client,
     clientOptions |-> clientOptions,
     scope |-> scope,
     captured |-> captured,
     initialScope |-> initialScope,
     readyListener |-> readyListener,
     changeListeners |-> changeListeners,
     pendingTimers |-> pendingTimers,
     nextId |-> nextId,
     lastReturn |-> lastReturn,
     allowed |-> allowed,
     blocked |-> blocked,
     spy |-> spy]

\* the world after the handler is the next state
Commit(w) ==
    /\ purposeMapping' = w.purposeMapping
    /\ isConsentReady' = w.isConsentReady
    /\ hasConsent' = w.hasConsent
    /\ eventQueue' = w.eventQueue
    /\ consentChangeListener' = w.consentChangeListener
    /\ currentConsentState' = w.currentConsentState
    /\ warningTimeoutId' = w.warningTimeoutId
    /\ errorTimeoutId' = w.errorTimeoutId
    /\ originalSentryConfig' = w.originalSentryConfig
    /\ originalScopeData' = w.originalScopeData
    /\ currentSentryHub' = w.currentSentryHub
    /\ client' = w.client
    /\ clientOptions' = w.clientOptions
    /\ scope' = w.scope
    /\ captured' = w.captured
    /\ initialScope' = w.initialScope
    /\ readyListener' = w.readyListener
    /\ changeListeners' = w.changeListeners
    /\ pendingTimers' = w.pendingTimers
    /\ nextId' = w.nextId
    /\ lastReturn' = w.lastReturn
    /\ allowed' = w.allowed
    /\ blocked' = w.blocked
    /\ spy' = w.spy

\* the capture calls of a drain that may throw: any of the queued positions
Throwing(w) == SUBSET (1..Len(w.eventQueue))

\* the same for a dispatched event, which drains only if a listener runs
ThrowingIf(listening, w) == IF listening THEN Throwing(w) ELSE {{}}

\* document.dispatchEvent('zarazConsentChoicesUpdated'): every registered
\* change listener runs
RECURSIVE dispatchChoicesUpdated(_, _, _, _)
dispatchChoicesUpdated(w, win, throwing, n) ==
    IF n = 0 THEN w
    ELSE dispatchChoicesUpdated(
             onConsentChoicesUpdated(w, win, throwing), win, throwing, n - 1)

\* document.dispatchEvent('zarazConsentAPIReady')
dispatchAPIReady(w, win, throwing) ==
    IF w.readyListener THEN handleZarazLoaded(w, win, throwing) ELSE w

\* the user's choices after the consent dialog stored a choice for every
\* purpose, or unchanged choices
NextChoices(win) == {win.get} \cup [DOMAIN win.get -> {"true", "false"}]

IdleResolver ==
    /\ rMapping = [p \in Purposes |-> MapUndefined]
    /\ rWindow = NewWindow
    /\ rResult = <<>>

IdleTwin ==
    /\ twin = NewWorld(CHOOSE pm \in Mappings : TRUE,
                       CHOOSE s \in SentrySetups : TRUE)
    /\ twinWindow = NewWindow

\* the world is w
Start(w) ==
    /\ purposeMapping = w.purposeMapping
    /\ isConsentReady = w.isConsentReady
    /\ hasConsent = w.hasConsent
    /\ eventQueue = w.eventQueue
    /\ consentChangeListener = w.consentChangeListener
    /\ currentConsentState = w.currentConsentState
    /\ warningTimeoutId = w.warningTimeoutId
    /\ errorTimeoutId = w.errorTimeoutId
    /\ originalSentryConfig = w.originalSentryConfig
    /\ originalScopeData = w.originalScopeData
    /\ currentSentryHub = w.currentSentryHub
    /\ client = w.client
    /\ clientOptions = w.clientOptions
    /\ scope = w.scope
    /\ captured = w.captured
    /\ initialScope = w.initialScope
    /\ readyListener = w.readyListener
    /\ changeListeners = w.changeListeners
    /\ pendingTimers = w.pendingTimers
    /\ nextId = w.nextId
    /\ lastReturn = w.lastReturn
    /\ allowed = w.allowed
    /\ blocked = w.blocked
    /\ spy = w.spy

Init ==
    /\ \E pm \in Mappings, setup \in SentrySetups : Start(NewWorld(pm, setup))
    /\ window = NewWindow
    /\ IdleTwin
    /\ IdleResolver

\* Sentry installs the integration: setupOnce runs once, before any event
SetupOnce ==
    /\ ~currentSentryHub
    /\ spy.calls < MaxSpyCalls
    /\ \E throwing \in Throwing(World) :
           Commit(setupOnce(World, window, throwing))
    /\ UNCHANGED <<window, twinVars, resolverVars>>

\* the client hands a captured event to the integration
ProcessEvent ==
    /\ currentSentryHub
    /\ nextId <= MaxEvents
    /\ \E shape \in EventShapes, hint \in Hints :
           Commit(processEvent(World, MakeEvent(nextId, shape), hint))
    /\ UNCHANGED <<window, twinVars, resolverVars>>

\* the consent manager's script creates window.zaraz.consent
ZarazLoads ==
    /\ ~window.consent
    /\ window' = [window EXCEPT !.consent = TRUE]
    /\ UNCHANGED <<worldVars, twinVars, resolverVars>>

\* the consent manager sets APIReady
ZarazBecomesReady ==
    /\ window.consent
    /\ ~window.APIReady
    /\ window' = [window EXCEPT !.APIReady = TRUE]
    /\ UNCHANGED <<worldVars, twinVars, resolverVars>>

\* a zarazConsentAPIReady event reaches the document
APIReadyEvent ==
    /\ spy.calls < MaxSpyCalls
    /\ \E throwing \in ThrowingIf(readyListener, World) :
           Commit(dispatchAPIReady(World, window, throwing))
    /\ UNCHANGED <<window, twinVars, resolverVars>>

\* the user's choices are stored and zarazConsentChoicesUpdated is dispatched
ChoicesUpdatedEvent ==
    /\ window.consent
    /\ spy.calls < MaxSpyCalls
    /\ \E get \in NextChoices(window),
          throwing \in ThrowingIf(changeListeners > 0, World) :
           /\ window' = [window EXCEPT !.get = get]
           /\ Commit(dispatchChoicesUpdated(World, window', throwing,
                                            changeListeners))
    /\ UNCHANGED <<twinVars, resolverVars>>

\* the 20 second timer expires
WarningTimerFires ==
    /\ "warning" \in pendingTimers
    /\ Commit(warningTimeout(World))
    /\ UNCHANGED <<window, twinVars, resolverVars>>

\* the 45 second timer expires, after the 20 second one armed with it
ErrorTimerFires ==
    /\ "error" \in pendingTimers
    /\ "warning" \notin pendingTimers
    /\ Commit(errorTimeout(World))
    /\ UNCHANGED <<window, twinVars, resolverVars>>

\* the host application calls cleanup() on the instance
Cleanup ==
    /\ currentSentryHub
    /\ Commit(cleanup(World))
    /\ UNCHANGED <<window, twinVars, resolverVars>>

Next ==
    \/ SetupOnce
    \/ ProcessEvent
    \/ ZarazLoads
    \/ ZarazBecomesReady
    \/ APIReadyEvent
    \/ ChoicesUpdatedEvent
    \/ WarningTimerFires
    \/ ErrorTimerFires
    \/ Cleanup

Spec == Init /\ [][Next]_vars

---------------------------------------------------------------------------
(* The purpose resolver on its own *)

\* the identifier arrays of at most MaxIds entries
RECURSIVE IdArrays(_)
IdArrays(n) ==
    IF n = 0 THEN {<<>>}
    ELSE IdArrays(n - 1) \cup
         { Append(a, i) : a \in { b \in IdArrays(n - 1) : Len(b) = n - 1 },
                          i \in Ids }

MappingValues ==
    {MapBoolean(TRUE), MapBoolean(FALSE), MapUndefined, MapString}
    \cup { MapArray(a) : a \in IdArrays(MaxIds) }

\* window undefined, window.zaraz.consent missing, present, present and ready
SourceStates ==
    { [defined |-> d, consent |-> c, APIReady |-> r, get |-> g] :
        d \in BOOLEAN, c \in BOOLEAN, r \in BOOLEAN, g \in [Ids -> GetValues] }

\* rMapping is the mapping of one purpose, the other purposes are not mapped
ResolverInit ==
    /\ Start(NewWorld(CHOOSE pm \in Mappings : TRUE,
                      CHOOSE s \in SentrySetups : TRUE))
    /\ window = NewWindow
    /\ IdleTwin
    /\ rMapping \in { [p \in Purposes |-> IF p = q THEN m ELSE MapUndefined] :
                        q \in Purposes, m \in MappingValues }
    /\ rWindow \in { sw \in SourceStates :
                       (sw.consent => sw.defined) /\ (sw.APIReady => sw.consent) }
    /\ rResult = <<>>

\* getZarazConsentState(purposeMapping) is called
Resolve ==
    /\ rResult = <<>>
    /\ rResult' = getZarazConsentState(rMapping, rWindow)
    /\ UNCHANGED <<worldVars, window, twinVars, rMapping, rWindow>>

ResolverNext == Resolve

ResolverSpec == ResolverInit /\ [][ResolverNext]_vars

---------------------------------------------------------------------------
(* The reconciler under every snapshot: an instance whose four purposes    *)
(* are mapped to four identifiers of their own, and no captured event      *)

PurposeIds == {"F", "A", "M", "P"}

PerPurposeMapping ==
    [functional |-> MapArray(<<"F">>), analytics |-> MapArray(<<"A">>),
     marketing |-> MapArray(<<"M">>), preferences |-> MapArray(<<"P">>)]

\* the setups of the application, one with a telemetry client whose
\* setContext copies, and one under a test spy
ReconcileSetups ==
    SentrySetups \cup
        { [client |-> TRUE, options |-> CustomInitOptions,
           scope |-> CopyingScope, spy |-> FALSE],
          [client |-> TRUE, options |-> CustomInitOptions,
           scope |-> PopulatedScope, spy |-> TRUE] }

ReconcileInit ==
    /\ \E setup \in ReconcileSetups : Start(NewWorld(PerPurposeMapping, setup))
    /\ window = [defined |-> TRUE, consent |-> FALSE, APIReady |-> FALSE,
                 get |-> [i \in PurposeIds |-> "undefined"]]
    /\ IdleTwin
    /\ IdleResolver

ReconcileNext ==
    \/ SetupOnce
    \/ ZarazLoads
    \/ ZarazBecomesReady
    \/ APIReadyEvent
    \/ ChoicesUpdatedEvent
    \/ WarningTimerFires
    \/ ErrorTimerFires
    \/ Cleanup

ReconcileSpec == ReconcileInit /\ [][ReconcileNext]_vars

---------------------------------------------------------------------------
(* Two runs of one instance that receive the same triggers and events,    *)
(* with consent sources that agree on functional consent only.  The        *)
(* triggers are the notifications, the timer expiries and the captured     *)
(* events; the runs are compared for as long as the instance is in use.    *)

\* both runs patch a client that the application configured itself
PairSetups == { s \in SentrySetups : s.options = CustomInitOptions }

\* the second run is an instance configured like the first
PairInit ==
    /\ \E pm \in Mappings, setup \in PairSetups :
           /\ Start(NewWorld(pm, setup))
           /\ twin = NewWorld(pm, setup)
    /\ window = NewWindow
    /\ twinWindow = NewWindow
    /\ IdleResolver

PairSetupOnce ==
    /\ ~currentSentryHub
    /\ \E throwing \in Throwing(World) :
           /\ Commit(setupOnce(World, window, throwing))
           /\ twin' = setupOnce(twin, twinWindow, throwing)
    /\ UNCHANGED <<window, twinWindow, resolverVars>>

PairProcessEvent ==
    /\ currentSentryHub
    /\ nextId <= MaxEvents
    /\ \E shape \in EventShapes, hint \in Hints :
           /\ Commit(processEvent(World, MakeEvent(nextId, shape), hint))
           /\ twin' = processEvent(twin, MakeEvent(nextId, shape), hint)
    /\ UNCHANGED <<window, twinWindow, resolverVars>>

PairZarazLoads ==
    /\ ~window.consent
    /\ window' = [window EXCEPT !.consent = TRUE]
    /\ twinWindow' = [twinWindow EXCEPT !.consent = TRUE]
    /\ UNCHANGED <<worldVars, twin, resolverVars>>

PairZarazBecomesReady ==
    /\ window.consent
    /\ ~window.APIReady
    /\ window' = [window EXCEPT !.APIReady = TRUE]
    /\ twinWindow' = [twinWindow EXCEPT !.APIReady = TRUE]
    /\ UNCHANGED <<worldVars, twin, resolverVars>>

PairAPIReadyEvent ==
    /\ \E throwing \in ThrowingIf(readyListener, World) :
           /\ Commit(dispatchAPIReady(World, window, throwing))
           /\ twin' = dispatchAPIReady(twin, twinWindow, throwing)
    /\ UNCHANGED <<window, twinWindow, resolverVars>>

\* the two users choose alike for functional consent, freely for the rest
PairChoicesUpdatedEvent ==
    /\ window.consent
    /\ \E get \in NextChoices(window), get2 \in NextChoices(twinWindow),
          throwing \in ThrowingIf(changeListeners > 0, World) :
           /\ window' = [window EXCEPT !.get = get]
           /\ twinWindow' = [twinWindow EXCEPT !.get = get2]
           /\ getConsentStatus(purposeMapping, window').functional =
                  getConsentStatus(twin.purposeMapping, twinWindow').functional
           /\ Commit(dispatchChoicesUpdated(World, window', throwing,
                                            changeListeners))
           /\ twin' = dispatchChoicesUpdated(twin, twinWindow', throwing,
                                             twin.changeListeners)
    /\ UNCHANGED resolverVars

PairWarningTimerFires ==
    /\ "warning" \in pendingTimers
    /\ Commit(warningTimeout(World))
    /\ twin' = IF "warning" \in twin.pendingTimers
               THEN warningTimeout(twin) ELSE twin
    /\ UNCHANGED <<window, twinWindow, resolverVars>>

PairErrorTimerFires ==
    /\ "error" \in pendingTimers
    /\ "warning" \notin pendingTimers
    /\ Commit(errorTimeout(World))
    /\ twin' = IF "error" \in twin.pendingTimers
                  /\ "warning" \notin twin.pendingTimers
               THEN errorTimeout(twin) ELSE twin
    /\ UNCHANGED <<window, twinWindow, resolverVars>>

PairNext ==
    \/ PairSetupOnce
    \/ PairProcessEvent
    \/ PairZarazLoads
    \/ PairZarazBecomesReady
    \/ PairAPIReadyEvent
    \/ PairChoicesUpdatedEvent
    \/ PairWarningTimerFires
    \/ PairErrorTimerFires

PairSpec == PairInit /\ [][PairNext]_vars

---------------------------------------------------------------------------
(* The wait for the consent source: no cleanup(), and timers that fire *)

\* the handlers without cleanup()
WaitNext ==
    \/ SetupOnce
    \/ ProcessEvent
    \/ ZarazLoads
    \/ ZarazBecomesReady
    \/ APIReadyEvent
    \/ ChoicesUpdatedEvent
    \/ WarningTimerFires
    \/ ErrorTimerFires

\* the event loop runs the callback of every timer that is armed and not
\* cleared (setTimeout, lines 405 and 416)
WaitSpec ==
    /\ Init
    /\ [][WaitNext]_vars
    /\ WF_vars(WarningTimerFires)
    /\ WF_vars(ErrorTimerFires)

---------------------------------------------------------------------------
(* Properties *)

\* NOT_READY, READY_GRANTED or READY_DENIED, from the two flags of the gate
GatingState ==
    IF ~isConsentReady THEN "NOT_READY"
    ELSE IF hasConsent THEN "READY_GRANTED" ELSE "READY_DENIED"

\* the identities of the queued events, in queue order
QueuedIds(q) == [i \in 1..Len(q) |-> q[i].event.id]

\* the identities of the events handed to a capture call, in call order
CapturedIds(c) == [i \in 1..Len(c) |-> c[i].id]

CaptureApis == {"captureException", "captureMessage", "captureEvent"}

NeverCleanedUp == currentSentryHub => errorTimeoutId

CheckConsentRan == changeListeners' = changeListeners + 1

\* C3: when checkConsent resolves functional consent true, every queued
\* event is handed to a capture call of the telemetry client, in queue
\* order, and the queue is empty afterwards; when it resolves false, the
\* queue is emptied and no capture call is made.
C3_FirstResolutionDrains ==
    [][CheckConsentRan =>
        /\ currentConsentState' = getConsentStatus(purposeMapping, window)
        /\ hasConsent' = currentConsentState'.functional
        /\ eventQueue' = <<>>
        /\ IF currentConsentState'.functional
           THEN /\ CapturedIds(captured') =
                       CapturedIds(captured) \o QueuedIds(eventQueue)
                /\ SubSeq(captured', 1, Len(captured)) = captured
                /\ \A i \in 1..Len(captured') : captured'[i].api \in CaptureApis
           ELSE captured' = captured]_vars

\* two queued events were re-submitted in their arrival order
C3_Witness ==
    /\ GatingState = "READY_GRANTED"
    /\ CapturedIds(captured) = <<1, 2>>
    /\ eventQueue = <<>>

\* C4: once the gate is decided the queue is empty, between any two handlers
C4_QueueEmptyOnceDecided ==
    GatingState \in {"READY_GRANTED", "READY_DENIED"} => eventQueue = <<>>

\* decided by the fallback, and two events have arrived since setup
C4_Witness ==
    /\ GatingState = "READY_DENIED"
    /\ currentConsentState = <<>>
    /\ nextId = 3
    /\ eventQueue = <<>>

\* a step in which the 45 second timer fired (a cleared timer loses its id)
FallbackFired ==
    /\ "error" \in pendingTimers
    /\ "error" \notin pendingTimers'
    /\ errorTimeoutId'

\* C5: the fallback leaves the gate READY_DENIED with an empty queue and
\* without any capture call made; from then on no queued event is ever
\* re-submitted, and while consent stays denied every event is blocked.
C5_FallbackDenies ==
    /\ [][FallbackFired =>
            /\ ~isConsentReady
            /\ GatingState' = "READY_DENIED"
            /\ eventQueue' = <<>>
            /\ captured' = <<>>
            /\ allowed' = <<>>]_vars
    /\ [][isConsentReady => captured' = captured]_vars
    /\ [][(GatingState = "READY_DENIED" /\ nextId' # nextId) =>
            /\ lastReturn'.result = NullEvent
            /\ allowed' = allowed
            /\ eventQueue' = <<>>]_vars

\* the fallback has fired and a later event was blocked
C5_Witness ==
    /\ GatingState = "READY_DENIED"
    /\ "error" \notin pendingTimers
    /\ errorTimeoutId
    /\ currentConsentState = <<>>
    /\ nextId = 3
    /\ lastReturn.result = NullEvent
    /\ allowed = <<>>
    /\ captured = <<>>

SourceAvailable(win) == win.defined /\ win.consent

\* C7: a purpose mapped to identifiers resolves true iff the source is
\* available and every identifier of the mapping reports exactly true.
C7_ArrayNeedsEveryIdentifier ==
    rResult # <<>> =>
        \A p \in Purposes :
            rMapping[p].kind = "array" =>
                (rResult[p] <=>
                    /\ SourceAvailable(rWindow)
                    /\ \A id \in Ids :
                           (\E i \in 1..Len(rMapping[p].ids) :
                                rMapping[p].ids[i] = id)
                           => rWindow.get[id] = "true")

\* one of two identifiers is granted, the other unknown: the purpose is denied
C7_Witness ==
    /\ rResult # <<>>
    /\ rMapping["analytics"].kind = "array"
    /\ rMapping["analytics"].ids = <<"F", "A">>
    /\ SourceAvailable(rWindow)
    /\ rWindow.get["F"] = "true"
    /\ rWindow.get["A"] = "undefined"
    /\ ~rResult["analytics"]

\* C8: a fixed boolean mapping resolves to that boolean and an absent
\* mapping resolves to false, whatever the state of the consent source.
C8_FixedMappingIgnoresSource ==
    rResult # <<>> =>
        \A p \in Purposes :
            /\ rMapping[p].kind = "boolean" => rResult[p] = rMapping[p].val
            /\ rMapping[p].kind = "undefined" => rResult[p] = FALSE

\* marketing: true resolves true with no source present
C8_Witness ==
    /\ rResult # <<>>
    /\ rMapping["marketing"] = MapBoolean(TRUE)
    /\ ~rWindow.consent
    /\ rResult["marketing"]
    /\ ~rResult["functional"]

\* the client has been reconciled with the cached snapshot
Reconciled == client /\ currentSentryHub /\ currentConsentState # <<>>

\* C9: after reconciliation with functional denied the live options have
\* enabled false, sampleRate 0 and a send hook that drops every event; with
\* functional granted they have enabled true, the captured sampleRate (1
\* when none was captured) and the captured send hook.
C9_FunctionalFields ==
    Reconciled =>
        IF ~currentConsentState.functional
        THEN /\ clientOptions.enabled = "false"
             /\ clientOptions.sampleRate = "0"
             /\ clientOptions.beforeSend = "blockAll"
        ELSE /\ clientOptions.enabled = "true"
             /\ clientOptions.sampleRate =
                    (IF originalSentryConfig.sampleRate = "undefined"
                     THEN "1" ELSE originalSentryConfig.sampleRate)
             /\ clientOptions.beforeSend = originalSentryConfig.beforeSend

\* functional denied for a client whose application set its own send hook
C9_Witness ==
    /\ Reconciled
    /\ ~currentConsentState.functional
    /\ originalSentryConfig.beforeSend = "userHook"
    /\ clientOptions.beforeSend = "blockAll"
    /\ clientOptions.enabled = "false"

Default(field) ==
    CASE field = "maxBreadcrumbs" -> "100"
      [] field = "attachStacktrace" -> "false"
      [] field = "sampleRate" -> "1"
      [] field = "sendDefaultPii" -> "false"
      [] OTHER -> "0"

\* the captured value of a field, or its default when none was captured
Restored(field) ==
    IF originalSentryConfig[field] = "undefined" THEN Default(field)
    ELSE originalSentryConfig[field]

GateView(w) ==
    [isConsentReady |-> w.isConsentReady,
     hasConsent |-> w.hasConsent,
     lastReturn |-> w.lastReturn,
     allowed |-> w.allowed,
     eventQueue |-> w.eventQueue,
     captured |-> w.captured,
     pendingTimers |-> w.pendingTimers,
     readyListener |-> w.readyListener,
     changeListeners |-> w.changeListeners]

\* C6: two runs that receive the same triggers and events and whose consent
\* sources agree on functional consent take the same decision for every
\* event and make the same capture calls, whatever the other purposes are.
C6_FunctionalIsTheOnlyGate == GateView(World) = GateView(twin)

\* the runs differ in the other purposes, and both have flushed one queued
\* event and allowed a later one
C6_Witness ==
    /\ currentConsentState # <<>>
    /\ twin.currentConsentState # <<>>
    /\ currentConsentState # twin.currentConsentState
    /\ currentConsentState.analytics # twin.currentConsentState.analytics
    /\ clientOptions # twin.clientOptions
    /\ CapturedIds(captured) = <<1>>
    /\ allowed = <<2>>
    /\ twin.allowed = <<2>>

Snapshots == [Purposes -> BOOLEAN]

\* a step that changes the cached snapshot in marketing and in nothing else
MarketingAloneChanges ==
    /\ currentConsentState # <<>>
    /\ currentConsentState' # <<>>
    /\ currentConsentState'.marketing # currentConsentState.marketing
    /\ \A p \in Purposes \ {"marketing"} :
           currentConsentState'[p] = currentConsentState[p]

C13_EnabledFollowsGate ==
    (client /\ currentSentryHub /\ isConsentReady) =>
        /\ clientOptions.enabled = "true" <=> GatingState = "READY_GRANTED"
        /\ GatingState = "READY_DENIED" =>
               /\ clientOptions.enabled = "false"
               /\ clientOptions.sampleRate = "0"

\* the gate was closed by the 45 second timer and the client is as the
\* application configured it: not switched off, sampling at its own rate
C13_Witness ==
    /\ client
    /\ GatingState = "READY_DENIED"
    /\ currentConsentState = <<>>
    /\ "error" \notin pendingTimers
    /\ errorTimeoutId
    /\ clientOptions.enabled = "undefined"
    /\ clientOptions.sampleRate = "0.5"
    /\ clientOptions.beforeSend = "userHook"

\* C14: in every state after setup and for every snapshot, reconciling
\* twice in succession with that snapshot builds the same patch both times
\* and leaves the options after the second run as they were after the first.
C14_ReconcileIdempotent ==
    currentSentryHub =>
        \A s \in Snapshots :
            LET first == applySentryConfiguration(World, s)
                second == applySentryConfiguration(first, s)
            IN  /\ buildConsentBasedConfig(first, s) =
                       buildConsentBasedConfig(World, s)
                /\ second.clientOptions = first.clientOptions

\* the client was reconciled with a granting snapshot, and reconciling it
\* again with that snapshot writes what is already there
C14_Witness ==
    /\ Reconciled
    /\ currentConsentState.functional
    /\ originalSentryConfig.beforeSend = "userHook"
    /\ clientOptions.beforeSend = "userHook"
    /\ clientOptions.enabled = "true"
    /\ applySentryConfiguration(World, currentConsentState).clientOptions
           = clientOptions

\* the purpose that decides a gated field
PurposeOf(field) ==
    CASE field \in {"enabled", "sampleRate", "beforeSend"} -> "functional"
      [] field \in {"sendDefaultPii", "replaysSessionSampleRate",
                    "replaysOnErrorSampleRate"} -> "preferences"
      [] OTHER -> "analytics"

\* the value of a gated field while its purpose is denied
Denied(field) ==
    CASE field \in {"enabled", "attachStacktrace", "sendDefaultPii"} -> "false"
      [] field \in {"beforeSend", "beforeBreadcrumb",
                    "beforeSendTransaction"} -> "blockAll"
      [] OTHER -> "0"

\* the value of a gated field, from the captured baseline and the cached
\* snapshot alone
Derived(field) ==
    IF ~currentConsentState[PurposeOf(field)] THEN Denied(field)
    ELSE IF field = "enabled" THEN "true"
    ELSE IF field \in {"beforeSend", "beforeBreadcrumb",
                       "beforeSendTransaction"}
    THEN originalSentryConfig[field]
    ELSE Restored(field)

\* a step that changes the cached snapshot in analytics and in nothing else
AnalyticsAloneChanges ==
    /\ currentConsentState # <<>>
    /\ currentConsentState' # <<>>
    /\ currentConsentState'.analytics # currentConsentState.analytics
    /\ \A p \in Purposes \ {"analytics"} :
           currentConsentState'[p] = currentConsentState[p]

\* C15: every patch names every gated field; whenever a snapshot is cached
\* each gated field of the live options has the value derived from the
\* baseline and that snapshot, whatever snapshots came before; and a step
\* that changes analytics alone changes no field of another purpose.
C15_GatedFieldsFollowLatestSnapshot ==
    /\ [](\A s \in Snapshots :
            DOMAIN buildConsentBasedConfig(World, s) = GatedFields)
    /\ [](Reconciled =>
            \A f \in GatedFields : clientOptions[f] = Derived(f))
    /\ [][AnalyticsAloneChanges =>
            \A f \in GatedFields :
                PurposeOf(f) # "analytics" =>
                    clientOptions'[f] = clientOptions[f]]_vars

\* analytics is granted with functional, preferences is not: the analytics
\* fields have the application's values, the PII flag is off
C15_Witness ==
    /\ Reconciled
    /\ currentConsentState.functional
    /\ currentConsentState.analytics
    /\ ~currentConsentState.preferences
    /\ originalSentryConfig.maxBreadcrumbs = "50"
    /\ clientOptions.maxBreadcrumbs = "50"
    /\ clientOptions.tracesSampleRate = "0.1"
    /\ clientOptions.beforeBreadcrumb = "userHook"
    /\ clientOptions.sampleRate = "0.5"
    /\ clientOptions.sendDefaultPii = "false"

\* a scope without user, with every captured tag undefined and without a
\* marketing context
MarketingCleared(s) ==
    /\ s.user = "null"
    /\ \A k \in DOMAIN originalScopeData.tags :
           k \in DOMAIN s.tags /\ s.tags[k] = "undefined"
    /\ "marketing" \notin DOMAIN s.contexts

\* C16: in every state after setup, updateSentryScope(false) leaves the scope
\* without user, with every tag key captured at setup set to undefined and
\* without the marketing context; so is the scope of every state reconciled
\* with a snapshot that denies marketing.
C16_RevokeClearsScope ==
    /\ currentSentryHub =>
           MarketingCleared(updateSentryScope(World, FALSE).scope)
    /\ (Reconciled /\ ~currentConsentState.marketing) =>
           MarketingCleared(scope)

\* marketing is denied for a scope that held a user, a tag and a marketing
\* context at setup; the context of the application is still there
C16_Witness ==
    /\ Reconciled
    /\ ~currentConsentState.marketing
    /\ originalScopeData.user = "user1"
    /\ scope.user = "null"
    /\ scope.tags["campaign"] = "undefined"
    /\ DOMAIN scope.contexts = {"app"}

\* C17: in every state reconciled with marketing granted, after any number
\* of revocations and grants, the scope's user, tags and contexts are those
\* it held when setupOnce captured it.
C17_ScopeRoundTrip ==
    (Reconciled /\ currentConsentState.marketing) =>
        ScopeData(scope) = initialScope

\* marketing was revoked and is granted again: user and tag are back, the
\* marketing context that the scope held at setup is not
C17_Witness ==
    /\ Reconciled
    /\ currentConsentState.marketing
    /\ scope.inPlace
    /\ originalScopeData.user = "user1"
    /\ scope.user = "user1"
    /\ scope.tags["campaign"] = "spring"
    /\ DOMAIN initialScope.contexts = {"marketing", "app"}
    /\ DOMAIN scope.contexts = {"app"}
    /\ DOMAIN originalScopeData.contexts = {"app"}

\* a step in which the user's choices change and the zarazConsentChoicesUpdated
\* event reaches the change listener that checkConsent registered (no other
\* step changes what the source reports)
ChangeNotified == window'.get # window.get /\ changeListeners > 0

\* C18: when the change listener recomputes a snapshot that differs from
\* the cached one, in either direction, the handler ends with the new
\* snapshot cached, the gate READY_GRANTED iff the new functional value is
\* true, and every gated field of a bound client derived from the new
\* snapshot.
C18_ChangeIsAdopted ==
    [][(ChangeNotified
          /\ getConsentStatus(purposeMapping, window') # currentConsentState) =>
            /\ currentConsentState' = getConsentStatus(purposeMapping, window')
            /\ GatingState' =
                   (IF currentConsentState'.functional THEN "READY_GRANTED"
                    ELSE "READY_DENIED")
            /\ client =>
                   (\A f \in GatedFields : clientOptions[f] = Derived(f))']_vars

\* an event was let through, then consent was revoked: the gate is closed,
\* the client switched off
C18_Witness ==
    /\ Reconciled
    /\ changeListeners > 0
    /\ allowed = <<1>>
    /\ ~currentConsentState.functional
    /\ GatingState = "READY_DENIED"
    /\ clientOptions.enabled = "false"
    /\ clientOptions.beforeSend = "blockAll"

\* C19: when the change listener recomputes a snapshot identical to the
\* cached one, nothing of the instance, the client or the scope changes and
\* the spy counts no configuration write, scope update or queue flush.
C19_SameSnapshotIsNoOp ==
    [][(ChangeNotified
          /\ getConsentStatus(purposeMapping, window') = currentConsentState) =>
            /\ UNCHANGED worldVars
            /\ spy'.calls = spy.calls]_vars

\* under the spy, the user has declined every purpose and the calls counted
\* are the configuration write and the scope update of the first resolution
C19_Witness ==
    /\ spy.installed
    /\ spy.calls = 2
    /\ changeListeners > 0
    /\ Reconciled
    /\ \A i \in PurposeIds : window.get[i] = "false"
    /\ \A p \in Purposes : ~currentConsentState[p]

\* C20: once isConsentReady is true it is true after every later handler:
\* processEvent, the notifications, the timers and cleanup().
C20_NeverBackToNotReady ==
    [][isConsentReady => isConsentReady']_vars

\* the gate was opened, an event went through, and cleanup() has removed
\* the change listener: the gate is still decided
C20_Witness ==
    /\ isConsentReady
    /\ currentConsentState # <<>>
    /\ allowed = <<1>>
    /\ ~consentChangeListener
    /\ changeListeners = 0
    /\ GatingState = "READY_GRANTED"

\* C21: the gate leaves NOT_READY by the first resolution or by the fallback
\* and never by both: once it is decided checkConsent does not run; and every
\* later change of GatingState happens in a step in which the change
\* listener is notified of changed choices.
C21_DecidedOnceThenChoicesOnly ==
    [][/\ (~isConsentReady /\ isConsentReady') =>
              (CheckConsentRan \/ FallbackFired)
       /\ isConsentReady => ~CheckConsentRan
       /\ (isConsentReady /\ GatingState' # GatingState) => ChangeNotified]_vars

\* the fallback has decided READY_DENIED, the readiness listener is still
\* registered, and the source has since become ready with functional
\* consent stored: the next zarazConsentAPIReady event runs checkConsent
C21_Witness ==
    /\ GatingState = "READY_DENIED"
    /\ currentConsentState = <<>>
    /\ readyListener
    /\ changeListeners = 0
    /\ window.consent /\ window.APIReady
    /\ getConsentStatus(purposeMapping, window).functional

\* the members of a sequence, and a sequence without a repeated member
Range(s) == { s[i] : i \in 1..Len(s) }
NoRepeat(s) == \A i, j \in 1..Len(s) : s[i] = s[j] => i = j

\* C22: a queued event is consumed exactly once.  It is held once, it is
\* never in the queue and among the re-submitted events at the same time,
\* and no event is re-submitted twice; an event leaves the queue in one step,
\* re-submitted in that step or not at all, and an event that has left the
\* queue never comes back to it.
C22_QueuedConsumedOnce ==
    /\ [](/\ NoRepeat(QueuedIds(eventQueue))
          /\ NoRepeat(CapturedIds(captured))
          /\ Range(QueuedIds(eventQueue)) \cap Range(CapturedIds(captured)) = {})
    /\ [][/\ Range(QueuedIds(eventQueue')) \subseteq
                 Range(QueuedIds(eventQueue)) \cup {nextId}
          /\ Range(CapturedIds(captured')) \subseteq
                 Range(CapturedIds(captured)) \cup Range(QueuedIds(eventQueue))
          /\ SubSeq(captured', 1, Len(captured)) = captured]_vars

\* two queued events were re-submitted by the first resolution, each of
\* them once, the second by a capture call that threw; consent has since
\* been revoked by the user
C22_Witness ==
    /\ CapturedIds(captured) = <<1, 2>>
    /\ captured[1].ok /\ ~captured[2].ok
    /\ eventQueue = <<>>
    /\ GatingState = "READY_DENIED"
    /\ changeListeners > 0
    /\ currentConsentState # <<>>

\* C23: an event given to processEvent while the gate was READY_DENIED was
\* answered with null, is not in the queue, was not let through, and has
\* not been handed to a capture call, whatever has happened since.
C23_DeniedEventsAreLost ==
    /\ blocked \cap Range(QueuedIds(eventQueue)) = {}
    /\ blocked \cap Range(CapturedIds(captured)) = {}
    /\ blocked \cap Range(allowed) = {}
    /\ lastReturn.event.id \in blocked => lastReturn.result = NullEvent

\* event 1 came while consent was denied; the user then granted consent
\* and event 2 was let through: event 1 was never re-submitted
C23_Witness ==
    /\ blocked = {1}
    /\ allowed = <<2>>
    /\ captured = <<>>
    /\ eventQueue = <<>>
    /\ GatingState = "READY_GRANTED"

\* C24: an event that arrives while consent is not yet determined is
\* blocked and not queued: the queue never holds an event, the last event
\* given while the gate was NOT_READY was answered with null, and the
\* integration never hands an earlier event to a capture call.
C24_UnknownConsentIsNotQueued ==
    /\ eventQueue = <<>>
    /\ captured = <<>>
    /\ (~isConsentReady /\ nextId > 1) => lastReturn.result = NullEvent

\* an event that came before consent was determined was stored, and sent
\* once functional consent was resolved
C24_Witness ==
    /\ CapturedIds(captured) = <<1>>
    /\ captured[1].ok
    /\ allowed = <<>>
    /\ blocked = {}
    /\ nextId = 2
    /\ GatingState = "READY_GRANTED"

\* C25: once setupOnce has run, and as long as cleanup() is not called and
\* armed timers fire, the gate leaves NOT_READY, by a readiness
\* notification or at the latest by the fallback; so a queued event does not
\* stay in the queue forever.
C25_BoundedWait ==
    /\ (currentSentryHub /\ ~isConsentReady) ~> isConsentReady
    /\ (eventQueue # <<>>) ~> (eventQueue = <<>>)

\* the consent manager never loaded: two events waited in the queue until
\* the fallback decided the gate
C25_Witness ==
    /\ ~window.consent
    /\ GatingState = "READY_DENIED"
    /\ pendingTimers = {}
    /\ readyListener
    /\ nextId = 3
    /\ blocked = {}
    /\ eventQueue = <<>>

\* the capture calls with the outcome of each call forgotten
Swallowed(c) == [i \in 1..Len(c) |-> [c[i] EXCEPT !.ok = TRUE]]

\* a step in which a capture call made for a queued event threw
RecaptureThrew ==
    \E i \in (Len(captured) + 1)..Len(captured') : ~captured'[i].ok

\* C26: when the capture call for a queued event throws, every queued event
\* is still handed to a capture call, the later ones included, in queue
\* order; the queue is empty, the gate READY_GRANTED and the snapshot cached
\* as resolved; and apart from the outcome of the calls the handler ends in
\* the state it ends in when no call throws.
C26_RecaptureFailureIsSwallowed ==
    [][RecaptureThrew =>
        /\ CapturedIds(captured') =
               CapturedIds(captured) \o QueuedIds(eventQueue)
        /\ SubSeq(captured', 1, Len(captured)) = captured
        /\ eventQueue' = <<>>
        /\ GatingState' = "READY_GRANTED"
        /\ currentConsentState' = getConsentStatus(purposeMapping, window)
        /\ [World EXCEPT !.captured = Swallowed(@)]' =
               [dispatchAPIReady(World, window, {})
                   EXCEPT !.captured = Swallowed(@)]]_vars

\* the capture call for the first queued event threw, the one for the
\* second was made and succeeded
C26_Witness ==
    /\ CapturedIds(captured) = <<1, 2>>
    /\ ~captured[1].ok
    /\ captured[2].ok
    /\ eventQueue = <<>>
    /\ GatingState = "READY_GRANTED"
    /\ currentConsentState.functional

\* C27: when the hub has no client, a resolution (the first one, or one
\* made by the change listener) writes no option and leaves the scope as
\* it was, and still caches the snapshot, sets the gate from functional
\* consent and flushes or discards the queue.
C27_NoClientSkipsReconcile ==
    [][(~client /\ (CheckConsentRan \/ ChangeNotified)) =>
        /\ clientOptions' = clientOptions
        /\ scope' = scope
        /\ currentConsentState' = getConsentStatus(purposeMapping, window')
        /\ GatingState' =
               (IF currentConsentState'.functional THEN "READY_GRANTED"
                ELSE "READY_DENIED")
        /\ eventQueue' = <<>>
        /\ IF currentConsentState'.functional
           THEN CapturedIds(captured') =
                    CapturedIds(captured) \o QueuedIds(eventQueue)
           ELSE captured' = captured]_vars

\* without a client, functional consent was resolved and marketing consent
\* denied: the queued event was re-submitted, the options and the scope are
\* those of Sentry.init
C27_Witness ==
    /\ ~client
    /\ currentSentryHub
    /\ currentConsentState # <<>>
    /\ currentConsentState.functional
    /\ ~currentConsentState.marketing
    /\ GatingState = "READY_GRANTED"
    /\ CapturedIds(captured) = <<1>>
    /\ clientOptions = DefaultInitOptions
    /\ ScopeData(scope) = ScopeData(PopulatedScope)

\* C28: once checkConsent has run, no timer is pending and neither timer id
\* is kept, so neither callback runs afterwards; in particular no fallback
\* is pending while the gate is READY_GRANTED.
C28_TimersCancelledOnResolution ==
    /\ currentConsentState # <<>> =>
           /\ pendingTimers = {}
           /\ ~warningTimeoutId
           /\ ~errorTimeoutId
    /\ GatingState = "READY_GRANTED" => "error" \notin pendingTimers

\* the source became ready while both timers were armed and an event was
\* waiting: the event was re-submitted and both timers are cancelled
C28_Witness ==
    /\ CapturedIds(captured) = <<1>>
    /\ currentConsentState # <<>>
    /\ GatingState = "READY_GRANTED"
    /\ ~readyListener
    /\ pendingTimers = {}
    /\ ~warningTimeoutId /\ ~errorTimeoutId
    /\ ~spy.installed

\* C29: when zarazConsentAPIReady arrives with the source ready, the
\* registered readiness listener runs checkConsent and is unsubscribed by
\* the end of the handler; the readiness listener is unsubscribed only by a
\* handler that ran checkConsent; and checkConsent runs only in an instance
\* in which it has not run before, and leaves no readiness listener, so a
\* further zarazConsentAPIReady finds no listener to run.
C29_ReadinessListenerIsOneShot ==
    /\ []((readyListener /\ window.consent /\ window.APIReady) =>
            LET w == dispatchAPIReady(World, window, {})
            IN  /\ ~w.readyListener
                /\ w.isConsentReady
                /\ w.currentConsentState =
                       getConsentStatus(purposeMapping, window)
                /\ w.changeListeners = changeListeners + 1
                /\ dispatchAPIReady(w, window, {}) = w)
    /\ [][/\ (readyListener /\ ~readyListener') => CheckConsentRan
          /\ CheckConsentRan =>
                 (currentConsentState = <<>> /\ ~readyListener')]_vars

\* the readiness listener has run checkConsent and is gone; the event that
\* waited for it was re-submitted
C29_Witness ==
    /\ ~readyListener
    /\ currentConsentState # <<>>
    /\ changeListeners = 1
    /\ consentChangeListener
    /\ CapturedIds(captured) = <<1>>
    /\ window.consent /\ window.APIReady
    /\ nextId = 2

\* a step in which the first snapshot is cached: the first resolution
FirstResolution == currentConsentState = <<>> /\ currentConsentState' # <<>>

\* C30: the change listener is subscribed in the first resolution and in
\* no other step.  Before it no change listener is registered, and a change
\* of the user's choices while the gate is NOT_READY changes nothing of the
\* instance, the client or the scope; after it exactly one is registered
\* for as long as the instance keeps it (cleanup() removes it), so each
\* zarazConsentChoicesUpdated runs the handler once.
C30_ChangeListenerSubscribedOnce ==
    /\ [](/\ changeListeners = (IF consentChangeListener THEN 1 ELSE 0)
          /\ currentConsentState = <<>> => changeListeners = 0
          /\ ~isConsentReady => changeListeners = 0)
    /\ [][/\ (changeListeners' > changeListeners) <=> FirstResolution
          /\ FirstResolution => (changeListeners = 0 /\ changeListeners' = 1)
          /\ (~isConsentReady /\ window'.get # window.get) =>
                 UNCHANGED worldVars]_vars

\* the user has granted every purpose while the gate is still NOT_READY:
\* no change listener is registered, nothing was resolved, and the two
\* events still wait in the queue
C30_Witness ==
    /\ GatingState = "NOT_READY"
    /\ currentSentryHub
    /\ window.consent
    /\ \A i \in Ids : window.get[i] = "true"
    /\ changeListeners = 0
    /\ ~consentChangeListener
    /\ currentConsentState = <<>>
    /\ Len(eventQueue) = 2
    /\ captured = <<>>

\* a step in which the 20 second timer fired (a cleared timer loses its id)
WarningFired ==
    /\ "warning" \in pendingTimers
    /\ "warning" \notin pendingTimers'
    /\ warningTimeoutId'

\* C32: the warning callback changes nothing but the timer that is spent:
\* the gate, the queue, the snapshot, the client's options, the scope, the
\* originals and the listeners are as before; and with the warning spent
\* and the gate still NOT_READY, processEvent still queues.
C32_WarningOnlyDiagnoses ==
    /\ [][WarningFired =>
            /\ UNCHANGED <<instVars, sentryVars, histVars, window>>
            /\ UNCHANGED <<readyListener, changeListeners>>
            /\ pendingTimers' = pendingTimers \ {"warning"}]_vars
    /\ []((~isConsentReady /\ currentSentryHub /\ errorTimeoutId
             /\ pendingTimers = {"error"}) =>
            \A shape \in EventShapes :
                LET e == MakeEvent(nextId, shape)
                    w == processEvent(World, e, "hint")
                IN  /\ w.eventQueue =
                           Append(eventQueue, [event |-> e, hint |-> "hint"])
                    /\ w.lastReturn.result = NullEvent)

\* the warning has fired while an event waited; a second event came after
\* it and waits behind the first
C32_Witness ==
    /\ GatingState = "NOT_READY"
    /\ pendingTimers = {"error"}
    /\ warningTimeoutId /\ errorTimeoutId
    /\ readyListener
    /\ QueuedIds(eventQueue) = <<1, 2>>
    /\ currentConsentState = <<>>

\* C33: setupOnce captures the originals from the client's options as they
\* are before the handler patches anything; no later handler changes them;
\* and the originals of a bound client never hold a value that a denial
\* writes where Sentry.init did not give it.
C33_BaselineCapturedOnce ==
    /\ [][/\ (~currentSentryHub /\ currentSentryHub' /\ client) =>
                 originalSentryConfig' =
                     [f \in OriginalFields |-> clientOptions[f]]
          /\ currentSentryHub =>
                 originalSentryConfig' = originalSentryConfig]_vars
    /\ []((currentSentryHub /\ client) =>
            /\ originalSentryConfig.sampleRate # "0"
            /\ originalSentryConfig.maxBreadcrumbs # "0"
            /\ \A f \in {"beforeSend", "beforeBreadcrumb",
                         "beforeSendTransaction"} :
                   originalSentryConfig[f] # "blockAll")

\* consent was denied, the client is switched off and cleanup() has run; the
\* originals still hold what Sentry.init gave
C33_Witness ==
    /\ client /\ currentSentryHub
    /\ Reconciled
    /\ clientOptions.sampleRate = "0"
    /\ clientOptions.beforeSend = "blockAll"
    /\ originalSentryConfig.sampleRate = "0.5"
    /\ originalSentryConfig.beforeSend = "userHook"
    /\ originalSentryConfig.maxBreadcrumbs = "50"
    /\ ~consentChangeListener

\* cleanup() has not run since the gate was decided: the instance still
\* holds its change listener, or the id of the fallback timer that fired
KeptSinceDecided == isConsentReady /\ (consentChangeListener \/ errorTimeoutId)

\* C34: whichever handler decides the gate, a change listener is subscribed
\* when it ends; and as long as cleanup() has not run, a change of the
\* user's choices leaves the gate READY_GRANTED iff functional consent is
\* granted by the new choices.
C34_ListenerWheneverDecided ==
    [][/\ (~isConsentReady /\ isConsentReady') => changeListeners' = 1
       /\ (KeptSinceDecided /\ window'.get # window.get) =>
              GatingState' =
                  (IF getConsentStatus(purposeMapping, window').functional
                   THEN "READY_GRANTED" ELSE "READY_DENIED")]_vars

\* the gate was decided by the fallback; the consent manager loaded
\* afterwards and the user granted every purpose, yet no change listener
\* is subscribed, the gate is READY_DENIED and the event was blocked
C34_Witness ==
    /\ GatingState = "READY_DENIED"
    /\ errorTimeoutId
    /\ currentConsentState = <<>>
    /\ changeListeners = 0
    /\ window.consent
    /\ \A i \in Ids : window.get[i] = "true"
    /\ getConsentStatus(purposeMapping, window).functional
    /\ blocked = {1}

\* cleanup() has run and nothing has been subscribed since: cleanup alone
\* leaves an instance that was set up without timer ids and without its
\* change listener
CleanedUp ==
    /\ currentSentryHub
    /\ ~warningTimeoutId
    /\ ~errorTimeoutId
    /\ ~consentChangeListener

\* C35: cleanup() ends with no timer pending, the queue empty and neither
\* the change listener nor the readiness listener registered; and from a
\* cleaned-up instance no step other than a processEvent call changes the
\* gate, the snapshot, the queue or the client's options.
C35_QuiescentAfterCleanup ==
    /\ [][Cleanup =>
            /\ pendingTimers' = {}
            /\ eventQueue' = <<>>
            /\ changeListeners' = 0
            /\ ~readyListener']_vars
    /\ [][(CleanedUp /\ nextId' = nextId) =>
            UNCHANGED <<isConsentReady, hasConsent, currentConsentState,
                        eventQueue, clientOptions>>]_vars

\* cleanup() ran while the instance waited for the source, and the
\* readiness listener is still registered; the source is ready now, so the
\* next zarazConsentAPIReady runs checkConsent on the cleaned-up instance
C35_Witness ==
    /\ CleanedUp
    /\ GatingState = "NOT_READY"
    /\ readyListener
    /\ pendingTimers = {}
    /\ window.consent /\ window.APIReady
    /\ client

\* C37: whenever a snapshot is cached, hasConsent is its functional value;
\* and a handler that ran the first resolution, or the change listener on
\* changed choices, ends with the snapshot cached that the purpose resolver
\* gives for the source as the handler found it.
C37_FlagAgreesWithSnapshot ==
    /\ [](currentConsentState # <<>> =>
            /\ hasConsent = currentConsentState.functional
            /\ DOMAIN currentConsentState = Purposes)
    /\ [][(FirstResolution \/ ChangeNotified) =>
            /\ currentConsentState' =
                   getConsentStatus(purposeMapping, window')
            /\ hasConsent' = currentConsentState'.functional]_vars

\* analytics consent alone was withdrawn after the first resolution: the
\* cached snapshot has followed, the flag is its functional value
C37_Witness ==
    /\ changeListeners = 1
    /\ currentConsentState # <<>>
    /\ purposeMapping.analytics = MapArray(<<"A">>)
    /\ window.get["F"] = "true" /\ window.get["A"] = "false"
    /\ currentConsentState.functional
    /\ ~currentConsentState.analytics
    /\ hasConsent
    /\ allowed = <<1, 2>>

\* C38: a purpose mapped to an empty identifier array resolves true exactly
\* when the source object is available, whatever the source reports; and
\* with functional so mapped and the source ready, the first resolution
\* made by setupOnce leaves the gate granted.
C38_EmptyArrayIsVacuouslyGranted ==
    rResult # <<>> =>
        /\ \A p \in Purposes :
               rMapping[p] = MapArray(<<>>) =>
                   (rResult[p] <=> SourceAvailable(rWindow))
        /\ (rMapping.functional = MapArray(<<>>)
              /\ rWindow.consent /\ rWindow.APIReady) =>
               \A setup \in SentrySetups :
                   LET w == setupOnce(NewWorld(rMapping, setup), rWindow, {})
                   IN  /\ w.isConsentReady
                       /\ w.hasConsent
                       /\ w.currentConsentState = rResult

\* functional is mapped to no identifier, the source is ready and reports
\* every identifier as declined: functional resolves true
C38_Witness ==
    /\ rResult # <<>>
    /\ rMapping.functional = MapArray(<<>>)
    /\ rWindow.consent /\ rWindow.APIReady
    /\ \A i \in Ids : rWindow.get[i] = "false"
    /\ rResult.functional
    /\ ~rResult.analytics

\* C31: every capture call of a drain is made with the live queue already
\* empty, and the event the call creates meets a gate that does not defer
\* it, so it joins neither the queue nor the batch; the drain hands to the
\* client exactly the events queued at its start, in order, and ends with
\* the queue empty.
C31_DrainClearsBeforeItIterates ==
    /\ [](\A i \in 1..Len(captured) :
              /\ captured[i].seen.queueLen = 0
              /\ captured[i].seen.admission = "allow")
    /\ [][captured' # captured =>
            /\ CapturedIds(captured') =
                   CapturedIds(captured) \o QueuedIds(eventQueue)
            /\ SubSeq(captured', 1, Len(captured)) = captured
            /\ eventQueue' = <<>>]_vars

\* a drain of two events by a bound client: both capture calls returned,
\* so both ran processEvent again, and both met an empty queue
C31_Witness ==
    /\ client
    /\ Len(captured) = 2
    /\ CapturedIds(captured) = <<1, 2>>
    /\ \A i \in 1..2 : captured[i].ok /\ captured[i].seen.queueLen = 0
    /\ eventQueue = <<>>
    /\ GatingState = "READY_GRANTED"

\* C36: every capture call made for a queued event finds the gate
\* READY_GRANTED and, in a bound client, the options of the granted
\* snapshot: enabled true, the original sampleRate and the original
\* beforeSend.
C36_ReconciledBeforeResubmission ==
    \A i \in 1..Len(captured) :
        /\ captured[i].seen.admission = "allow"
        /\ client =>
               /\ captured[i].seen.enabled = "true"
               /\ captured[i].seen.sampleRate =
                      Nullish(originalSentryConfig.sampleRate, "1")
               /\ captured[i].seen.beforeSend =
                      originalSentryConfig.beforeSend

\* the application's own sampleRate and beforeSend were back in place when
\* the queued event was re-submitted; consent was revoked afterwards
C36_Witness ==
    /\ client
    /\ Len(captured) = 1
    /\ captured[1].seen.enabled = "true"
    /\ captured[1].seen.sampleRate = "0.5"
    /\ captured[1].seen.beforeSend = "userHook"
    /\ captured[1].seen.admission = "allow"
    /\ clientOptions.enabled = "false"
    /\ GatingState = "READY_DENIED"

===========================================================================
